---- MODULE Spec2Model ----
(***************************************************************************)
(* Model of the key-staleness audit of authorized-keys-tool:               *)
(*   get_keys_older_than            src/src/usecases/oldkeys.rs:14-36      *)
(*   get_attempts_map               src/src/usecases/oldkeys.rs:39-72      *)
(*   get_key_candidates_for_removal src/src/usecases/oldkeys.rs:74-119     *)
(*   main (show-keys)               src/src/main.rs:87-136                 *)
(*   get_authorized_keys_from_file  src/src/authorizedkeys.rs:48-108       *)
(* Timestamps are whole seconds since an arbitrary epoch.                  *)
(***************************************************************************)
EXTENDS Integers, Sequences, FiniteSets

VARIABLES
    pc,                      \* position of the run
    days_threshold,          \* --older-than-days, a usize
    failed,                  \* the data source that could not be read, or "none"
    attempts,                \* Vec<KeyLoginAttempt>
    actual_fingerprints,     \* Vec<PublicKeyFingerprint>, the fingerprint universe
    attempts_map,            \* HashMap<String, KeyLoginAttempt>
    authorized_keys,         \* Vec<AuthorizedKey>
    now,                     \* Local::now() as read by the classifier
    candidates_for_removal,  \* Vec<AuthorizedKey>
    last_log,                \* the branch the last loop iteration logged
    result,                  \* what get_keys_older_than returned
    stdout,                  \* lines printed by main
    exit_code,               \* code passed to exit(), -1 while running
    rows,                    \* parser: the rows the file content splits into
    row_index,               \* parser: rows the loop has consumed
    parser_keys              \* parser: `keys`, the Vec<AuthorizedKey> built so far

vars == <<pc, days_threshold, failed, attempts, actual_fingerprints, attempts_map,
          authorized_keys, now, candidates_for_removal, last_log, result, stdout,
          exit_code, rows, row_index, parser_keys>>

----------------------------------------------------------------------------
(* Bounds of the explored input space.                                     *)

\* longest login-attempt sequence folded by the loop of get_attempts_map
MaxAttempts == 3
\* longest fingerprint universe (entries of actual_fingerprints)
MaxUniverse == 2
\* longest authorized-keys list walked by the classifier loop
MaxKeys == 3
\* timestamps range over 0 .. MaxDay days, in half-day steps
MaxDay == 2
\* thresholds 0 .. MaxThreshold, plus usize::MAX
MaxThreshold == 1
\* whole runs (Spec): longest attempts sequence; Spec and SpecThreshold: longest key list
MaxRunAttempts == 2
MaxRunKeys == 1

----------------------------------------------------------------------------
(* Data.                                                                   *)

\* chrono::Duration::num_days divides whole seconds by 86400
SecsPerDay == 86400

Fingerprints == {"fp1", "fp2"}
FingerprintTypes == {"SHA256", "MD5"}

\* instants at half-day granularity, and those that fall on a day boundary
Times == {(h * SecsPerDay) \div 2 : h \in 0..(2 * MaxDay)}
DayTimes == {d * SecsPerDay : d \in 0..MaxDay}
LastTime == MaxDay * SecsPerDay
\* three instants a day apart, for the attempts folded by get_attempts_map
\* (the fold only compares timestamps)
AttemptTimes == {0, SecsPerDay, 2 * SecsPerDay}

\* KeyLoginAttempt as built by tests_common::get_key_login_attempt
KeyLoginAttempt(ts, fp, ft) ==
    [timestamp |-> ts, key_type |-> "rsa", fingerprint_type |-> ft,
     fingerprint |-> fp, username |-> "a@b.com", key_offset |-> 0]

\* PublicKeyFingerprint as built by tests_common::get_public_key_fingerprint
PublicKeyFingerprint(fp, ft) ==
    [key_length |-> 2048, fingerprint_type |-> ft, fingerprint |-> fp,
     key_id |-> "a@b.com", key_type |-> "RSA"]

AttemptValues(times, types) ==
    {KeyLoginAttempt(ts, fp, ft) : ts \in times, fp \in Fingerprints, ft \in types}

UniverseValues == {PublicKeyFingerprint(fp, "SHA256") : fp \in Fingerprints}

SeqsUpTo(S, n) == UNION {[1..k -> S] : k \in 0..n}

\* fingerprint universes of up to n entries, each fingerprint listed once
Universes(n) ==
    {u \in SeqsUpTo(UniverseValues, n) :
        \A a, b \in 1..Len(u) : u[a].fingerprint = u[b].fingerprint => a = b}

EmptyMap == [x \in {} |-> 0]

----------------------------------------------------------------------------
(* get_attempts_map, oldkeys.rs:39-72.                                     *)

\* HashMap::insert: adds the key or overwrites its value
MapInsert(m, k, v) == [x \in (DOMAIN m) \cup {k} |-> IF x = k THEN v ELSE m[x]]

\* actual_fingerprints.iter().find(|af| af.fingerprint == login_attempt.fingerprint)
\* compares the fingerprint strings only (oldkeys.rs:45-48);
\* FingerprintFoundSameType is the search that also compares fingerprint_type
FingerprintFoundSameType(fps, login_attempt) ==
    \E n \in 1..Len(fps) :
        /\ fps[n].fingerprint = login_attempt.fingerprint
        /\ fps[n].fingerprint_type = login_attempt.fingerprint_type
FingerprintFound(fps, login_attempt) ==
    \E n \in 1..Len(fps) : fps[n].fingerprint = login_attempt.fingerprint

\* the comparison that lets a later attempt replace the saved one (oldkeys.rs:56);
\* ReplacesSavedEarlier is the comparison reversed
ReplacesSavedEarlier(saved, login_attempt) == saved.timestamp > login_attempt.timestamp
ReplacesSaved(saved, login_attempt) == saved.timestamp < login_attempt.timestamp

\* one iteration of the loop body (oldkeys.rs:44-69); AttemptsMapStepNoGate is
\* the body without the universe test, AttemptsMapStepLastWins the body that
\* overwrites the saved attempt whatever its timestamp
AttemptsMapStepNoGate(m, fps, login_attempt) ==
    LET key == login_attempt.fingerprint IN
    IF key \in DOMAIN m
    THEN IF ReplacesSaved(m[key], login_attempt)
         THEN MapInsert(m, key, login_attempt) ELSE m
    ELSE MapInsert(m, key, login_attempt)
AttemptsMapStepLastWins(m, fps, login_attempt) ==
    IF FingerprintFound(fps, login_attempt)
    THEN MapInsert(m, login_attempt.fingerprint, login_attempt)
    ELSE m
AttemptsMapStep(m, fps, login_attempt) ==
    IF FingerprintFound(fps, login_attempt)
    THEN LET key == login_attempt.fingerprint IN
         IF key \in DOMAIN m
         THEN IF ReplacesSaved(m[key], login_attempt)
              THEN MapInsert(m, key, login_attempt)
              ELSE m
         ELSE MapInsert(m, key, login_attempt)
    ELSE m

\* the whole function: the loop folded over the attempts, from an empty map
RECURSIVE get_attempts_map(_, _)
get_attempts_map(atts, fps) ==
    IF atts = <<>> THEN EmptyMap
    ELSE LET m == get_attempts_map(SubSeq(atts, 1, Len(atts) - 1), fps) IN
         AttemptsMapStep(m, fps, atts[Len(atts)])

----------------------------------------------------------------------------
(* SpecMap: the loop of get_attempts_map, one action per iteration.        *)
(* `attempts` holds the elements the iterator has yielded so far; the next *)
(* element is drawn when the loop reaches it.                              *)

\* the parser's variables before get_authorized_keys_from_file is entered
ParserIdle == rows = <<>> /\ row_index = 0 /\ parser_keys = <<>>

TypeDefaults ==
    /\ ParserIdle
    /\ days_threshold = [wrapped |-> FALSE, n |-> 0]
    /\ failed = "none"
    /\ authorized_keys = <<>>
    /\ now = 0
    /\ candidates_for_removal = <<>>
    /\ last_log = "none"
    /\ result = [kind |-> "none"]
    /\ stdout = <<>>
    /\ exit_code = -1

InitMap ==
    /\ pc = "get_attempts_map"
    /\ attempts = <<>>
    /\ actual_fingerprints \in Universes(MaxUniverse)
    /\ attempts_map = EmptyMap
    /\ TypeDefaults

MapLoop(login_attempt) ==
    /\ pc = "get_attempts_map"
    /\ Len(attempts) < MaxAttempts
    /\ attempts' = Append(attempts, login_attempt)
    /\ attempts_map' = AttemptsMapStep(attempts_map, actual_fingerprints, login_attempt)
    /\ last_log' = IF FingerprintFound(actual_fingerprints, login_attempt)
                   THEN "found" ELSE "not_found"
    /\ UNCHANGED <<rows, row_index, parser_keys>>
    /\ UNCHANGED <<pc, days_threshold, failed, actual_fingerprints, authorized_keys,
                   now, candidates_for_removal, result, stdout, exit_code>>

NextMap ==
    \E login_attempt \in AttemptValues(AttemptTimes, FingerprintTypes) :
        MapLoop(login_attempt)

SpecMap == InitMap /\ [][NextMap]_vars

----------------------------------------------------------------------------
(* get_key_candidates_for_removal, oldkeys.rs:74-119.                      *)

\* days_threshold is a usize (oldkeys.rs:15, main.rs:62).  A value is held as
\* [wrapped |-> FALSE, n |-> v] for v itself, and as [wrapped |-> TRUE, n |-> v]
\* for 2^64 - v, the values at the top of the 64-bit range (v = 1 is usize::MAX).
Thresholds ==
    [wrapped : {FALSE}, n : 0..MaxThreshold] \cup {[wrapped |-> TRUE, n |-> 1]}

\* `days_threshold as i64` (oldkeys.rs:80): the same 64 bits read as a signed
\* number, so 2^64 - v becomes -v
U64AsI64(t) == IF t.wrapped THEN -t.n ELSE t.n

\* Duration::num_days of now.signed_duration_since(timestamp) (oldkeys.rs:95-98):
\* whole seconds divided by 86400, truncated toward zero
\* NumDaysMagnitude is the number of whole days without the sign
NumDaysMagnitude(secs) ==
    IF secs >= 0 THEN secs \div SecsPerDay ELSE (-secs) \div SecsPerDay
NumDays(secs) ==
    IF secs >= 0 THEN secs \div SecsPerDay ELSE -((-secs) \div SecsPerDay)

\* now.signed_duration_since(timestamp).num_days() (oldkeys.rs:95-98);
\* SinceDaysCalendar is the difference of the two calendar dates instead
SinceDaysCalendar(t_now, timestamp) ==
    (t_now \div SecsPerDay) - (timestamp \div SecsPerDay)
SinceDays(t_now, timestamp) == NumDays(t_now - timestamp)

\* since.num_days() > key_days_threshold (oldkeys.rs:98); DaysExceedOrEqual is
\* the comparison with >= in its place
DaysExceedOrEqual(days, key_days_threshold) == days >= key_days_threshold
DaysExceed(days, key_days_threshold) == days > key_days_threshold

\* AuthorizedKey, as the struct literals of oldkeys.rs:183-188 build it
AuthorizedKey(kt, k, id, row) == [key_type |-> kt, key |-> k, id |-> id, row_index |-> row]

\* Equality of two AuthorizedKey values as Vec::contains uses it (oldkeys.rs:100):
\* key type, key material and comment.  The struct used by oldkeys.rs (with
\* row_index) is not in the sources; src/src/authorizedkeys.rs:15-20 derives
\* PartialEq over key_type, key and id.
AuthorizedKeyEq(a, b) == a.key_type = b.key_type /\ a.key = b.key /\ a.id = b.id

\* key material of the model: an RSA blob and an Ed25519 blob (the base64 text
\* starts with the encoded key type, oldkeys.rs:185 and 194)
KeyMaterials == {"AAAAB3NzaC1yc2E", "AAAAC3NzaC1lZDI1NTE5"}
BlobKeyType(k) == IF k = "AAAAB3NzaC1yc2E" THEN "ssh-rsa" ELSE "ssh-ed25519"

\* PublicKey::parse(&format!("{}", authorized_key)) (oldkeys.rs:87-89): Ok when
\* the key type written in the line is the type encoded in the blob
PublicKeyParseOk(authorized_key) == BlobKeyType(authorized_key.key) = authorized_key.key_type

\* public_key.fingerprint() (oldkeys.rs:90): a digest of the blob alone
FingerprintOf(authorized_key) ==
    IF authorized_key.key = "AAAAB3NzaC1yc2E" THEN "fp1" ELSE "fp2"

\* HashMap::get (oldkeys.rs:93); MapGetNone is a lookup that finds nothing
MapGetNone(m, k) == [some |-> FALSE]
MapGet(m, k) == IF k \in DOMAIN m THEN [some |-> TRUE, value |-> m[k]]
                ELSE [some |-> FALSE]

\* candidates_for_removal.contains(authorized_key) (oldkeys.rs:100);
\* ContainsNever is the test left out
ContainsNever(cands, authorized_key) == FALSE
\* ContainsSameKey is the test on key type and key material alone
ContainsSameKey(cands, authorized_key) ==
    \E n \in 1..Len(cands) :
        cands[n].key_type = authorized_key.key_type /\ cands[n].key = authorized_key.key
Contains(cands, authorized_key) ==
    \E n \in 1..Len(cands) : AuthorizedKeyEq(cands[n], authorized_key)

\* the branch one iteration of the loop takes (oldkeys.rs:86-116); the names are
\* those of the log lines
ClassifyBranch(cands, m, key_days_threshold, t_now, authorized_key) ==
    IF PublicKeyParseOk(authorized_key)
    THEN LET actual_fingerprint == FingerprintOf(authorized_key) IN
         IF actual_fingerprint \in DOMAIN m
         THEN LET got == MapGet(m, actual_fingerprint) IN
              IF got.some
              THEN IF DaysExceed(SinceDays(t_now, got.value.timestamp), key_days_threshold)
                   THEN IF ~Contains(cands, authorized_key)
                        THEN "added" ELSE "duplicate"
                   ELSE "recent"
              ELSE "missing"
         ELSE "no_attempt"
    ELSE "parse_error"

\* the candidate list after one iteration: pushes at oldkeys.rs:101 and 108.
\* Variants: ClassifyStepPushFront inserts at the head, ClassifyStepNoEvidence
\* also pushes a key without an index entry, ClassifyStepFatal drops the list
\* built so far when an entry fails to parse
ClassifyStepPushFront(cands, m, key_days_threshold, t_now, authorized_key) ==
    IF ClassifyBranch(cands, m, key_days_threshold, t_now, authorized_key)
           \in {"added", "missing"}
    THEN <<authorized_key>> \o cands ELSE cands
ClassifyStepNoEvidence(cands, m, key_days_threshold, t_now, authorized_key) ==
    IF ClassifyBranch(cands, m, key_days_threshold, t_now, authorized_key)
           \in {"added", "missing", "no_attempt"}
    THEN Append(cands, authorized_key) ELSE cands
ClassifyStepFatal(cands, m, key_days_threshold, t_now, authorized_key) ==
    LET b == ClassifyBranch(cands, m, key_days_threshold, t_now, authorized_key) IN
    IF b = "parse_error" THEN <<>>
    ELSE IF b \in {"added", "missing"} THEN Append(cands, authorized_key) ELSE cands
ClassifyStep(cands, m, key_days_threshold, t_now, authorized_key) ==
    LET b == ClassifyBranch(cands, m, key_days_threshold, t_now, authorized_key) IN
    IF b \in {"added", "missing"} THEN Append(cands, authorized_key) ELSE cands

\* the whole function, with `now` as read from the clock at oldkeys.rs:84
RECURSIVE get_key_candidates_for_removal(_, _, _, _)
get_key_candidates_for_removal(keys, m, threshold, t_now) ==
    IF keys = <<>> THEN <<>>
    ELSE LET cands == get_key_candidates_for_removal(
                          SubSeq(keys, 1, Len(keys) - 1), m, threshold, t_now) IN
         ClassifyStep(cands, m, U64AsI64(threshold), t_now, keys[Len(keys)])

----------------------------------------------------------------------------
(* SpecClassify: the loop of get_key_candidates_for_removal, one action    *)
(* per iteration, over an index whose timestamps fall on day boundaries.   *)
(* SpecThreshold: the same loop over short lists, with `now` and the index *)
(* timestamps at half-day granularity.                                     *)
(* `authorized_keys` holds the elements the iterator has yielded so far.   *)

\* the keys an authorized_keys list can hold at position row
KeyValues(row) ==
    {AuthorizedKey(kt, k, id, row) :
        kt \in {"ssh-rsa", "ssh-ed25519"}, k \in KeyMaterials, id \in {"", "a@b.com"}}
       \ {AuthorizedKey("ssh-rsa", "AAAAC3NzaC1lZDI1NTE5", id, row) : id \in {"", "a@b.com"}}

\* indexes as get_attempts_map builds them: each entry under its own fingerprint
IndexValues(times) ==
    UNION {[D -> times] : D \in SUBSET Fingerprints}

IndexOf(f) == [fp \in DOMAIN f |-> KeyLoginAttempt(f[fp], fp, "SHA256")]

InitLoop(nows, times) ==
    /\ pc = "get_key_candidates_for_removal"
    /\ days_threshold \in Thresholds
    /\ failed = "none"
    /\ now \in nows
    /\ \E f \in IndexValues(times) : attempts_map = IndexOf(f)
    /\ attempts = <<>>
    /\ actual_fingerprints = <<>>
    /\ authorized_keys = <<>>
    /\ candidates_for_removal = <<>>
    /\ last_log = "none"
    /\ result = [kind |-> "none"]
    /\ stdout = <<>>
    /\ exit_code = -1
    /\ ParserIdle

ClassifyLoop(authorized_key) ==
    /\ pc = "get_key_candidates_for_removal"
    /\ authorized_keys' = Append(authorized_keys, authorized_key)
    /\ candidates_for_removal' =
           ClassifyStep(candidates_for_removal, attempts_map,
                        U64AsI64(days_threshold), now, authorized_key)
    /\ last_log' = ClassifyBranch(candidates_for_removal, attempts_map,
                                  U64AsI64(days_threshold), now, authorized_key)
    /\ UNCHANGED <<rows, row_index, parser_keys>>
    /\ UNCHANGED <<pc, days_threshold, failed, attempts, actual_fingerprints,
                   attempts_map, now, result, stdout, exit_code>>

InitClassify == InitLoop({LastTime}, DayTimes)

NextClassify ==
    \E authorized_key \in KeyValues(Len(authorized_keys)) :
        Len(authorized_keys) < MaxKeys /\ ClassifyLoop(authorized_key)

SpecClassify == InitClassify /\ [][NextClassify]_vars

InitThreshold == InitLoop(Times, Times)

NextThreshold ==
    \E authorized_key \in KeyValues(Len(authorized_keys)) :
        Len(authorized_keys) < MaxRunKeys /\ ClassifyLoop(authorized_key)

SpecThreshold == InitThreshold /\ [][NextThreshold]_vars

----------------------------------------------------------------------------
(* Spec: one run of `akt show-keys --older-than-days N`: main calls          *)
(* get_keys_older_than (main.rs:122-135, oldkeys.rs:14-36).  Each source   *)
(* either loads or fails; a failure returns through `?`.                   *)

\* exit(EXIT_CODE_ERROR), main.rs:38
EXIT_CODE_ERROR == 1

\* authorized-keys lists of up to n entries, row_index the position in the list
RECURSIVE KeyLists(_)
KeyLists(n) ==
    IF n = 0 THEN {<<>>}
    ELSE LET shorter == KeyLists(n - 1) IN
         shorter \cup {Append(l, k) : l \in {x \in shorter : Len(x) = n - 1},
                                      k \in KeyValues(n - 1)}

Err(source) == [kind |-> "err", error |-> source]
Ok(keys) == [kind |-> "ok", keys |-> keys]

Init ==
    /\ pc = "start"
    /\ days_threshold \in Thresholds
    /\ failed = "none"
    /\ attempts = <<>>
    /\ actual_fingerprints = <<>>
    /\ attempts_map = EmptyMap
    /\ authorized_keys = <<>>
    /\ now = 0
    /\ candidates_for_removal = <<>>
    /\ last_log = "none"
    /\ result = [kind |-> "none"]
    /\ stdout = <<>>
    /\ exit_code = -1
    /\ ParserIdle

\* oldkeys.rs:20-21, the attempts are read
GetLoginAttempts(atts) ==
    /\ pc = "start"
    /\ attempts' = atts
    /\ pc' = "attempts_loaded"
    /\ UNCHANGED <<rows, row_index, parser_keys>>
    /\ UNCHANGED <<days_threshold, failed, actual_fingerprints, attempts_map,
                   authorized_keys, now, candidates_for_removal, last_log, result,
                   stdout, exit_code>>

\* oldkeys.rs:20, the auth log cannot be read: `?` returns the error.
\* GetLoginAttemptsFailsIgnored carries on with no attempts instead
GetLoginAttemptsFailsIgnored ==
    /\ pc = "start"
    /\ failed' = "login_attempts"
    /\ pc' = "attempts_loaded"
    /\ UNCHANGED <<rows, row_index, parser_keys>>
    /\ UNCHANGED <<days_threshold, attempts, actual_fingerprints, attempts_map,
                   authorized_keys, now, candidates_for_removal, last_log, result,
                   stdout, exit_code>>
GetLoginAttemptsFails ==
    /\ pc = "start"
    /\ failed' = "login_attempts"
    /\ result' = Err("login_attempts")
    /\ pc' = "returned"
    /\ UNCHANGED <<rows, row_index, parser_keys>>
    /\ UNCHANGED <<days_threshold, attempts, actual_fingerprints, attempts_map,
                   authorized_keys, now, candidates_for_removal, last_log,
                   stdout, exit_code>>

\* oldkeys.rs:23-25, the fingerprints are read and the index is built
GetFingerprints(fps) ==
    /\ pc = "attempts_loaded"
    /\ actual_fingerprints' = fps
    /\ attempts_map' = get_attempts_map(attempts, fps)
    /\ pc' = "map_built"
    /\ UNCHANGED <<rows, row_index, parser_keys>>
    /\ UNCHANGED <<days_threshold, failed, attempts, authorized_keys, now,
                   candidates_for_removal, last_log, result, stdout, exit_code>>

\* oldkeys.rs:23, the fingerprints cannot be computed
GetFingerprintsFails ==
    /\ pc = "attempts_loaded"
    /\ failed' = "fingerprints"
    /\ result' = Err("fingerprints")
    /\ pc' = "returned"
    /\ UNCHANGED <<rows, row_index, parser_keys>>
    /\ UNCHANGED <<days_threshold, attempts, actual_fingerprints, attempts_map,
                   authorized_keys, now, candidates_for_removal, last_log,
                   stdout, exit_code>>

\* oldkeys.rs:29-35, the keys are read and classified at clock reading t_now
GetAuthorizedKeys(keys, t_now) ==
    /\ pc = "map_built"
    /\ authorized_keys' = keys
    /\ now' = t_now
    /\ candidates_for_removal' =
           get_key_candidates_for_removal(keys, attempts_map, days_threshold, t_now)
    /\ result' = Ok(candidates_for_removal')
    /\ pc' = "returned"
    /\ UNCHANGED <<rows, row_index, parser_keys>>
    /\ UNCHANGED <<days_threshold, failed, attempts, actual_fingerprints,
                   attempts_map, last_log, stdout, exit_code>>

\* oldkeys.rs:29, the authorized_keys file cannot be read
GetAuthorizedKeysFails ==
    /\ pc = "map_built"
    /\ failed' = "authorized_keys"
    /\ result' = Err("authorized_keys")
    /\ pc' = "returned"
    /\ UNCHANGED <<rows, row_index, parser_keys>>
    /\ UNCHANGED <<days_threshold, attempts, actual_fingerprints, attempts_map,
                   authorized_keys, now, candidates_for_removal, last_log,
                   stdout, exit_code>>

\* main.rs:125-128 and 135: the header, one line per key, exit(0)
MainOk ==
    /\ pc = "returned"
    /\ result.kind = "ok"
    /\ stdout' = <<[line |-> "keys for removal:"]>>
                     \o [n \in 1..Len(result.keys) |-> [line |-> "key", key |-> result.keys[n]]]
    /\ exit_code' = 0
    /\ pc' = "exited"
    /\ UNCHANGED <<rows, row_index, parser_keys>>
    /\ UNCHANGED <<days_threshold, failed, attempts, actual_fingerprints,
                   attempts_map, authorized_keys, now, candidates_for_removal,
                   last_log, result>>

\* main.rs:129-132: the error goes to stderr, exit(EXIT_CODE_ERROR)
MainErr ==
    /\ pc = "returned"
    /\ result.kind = "err"
    /\ exit_code' = EXIT_CODE_ERROR
    /\ pc' = "exited"
    /\ UNCHANGED <<rows, row_index, parser_keys>>
    /\ UNCHANGED <<days_threshold, failed, attempts, actual_fingerprints,
                   attempts_map, authorized_keys, now, candidates_for_removal,
                   last_log, result, stdout>>

Next ==
    \/ \E atts \in SeqsUpTo(AttemptValues(DayTimes, {"SHA256"}), MaxRunAttempts) :
           GetLoginAttempts(atts)
    \/ GetLoginAttemptsFails
    \/ \E fps \in Universes(MaxUniverse) : GetFingerprints(fps)
    \/ GetFingerprintsFails
    \/ \E keys \in KeyLists(MaxRunKeys) : GetAuthorizedKeys(keys, LastTime)
    \/ GetAuthorizedKeysFails
    \/ MainOk
    \/ MainErr

Spec == Init /\ [][Next]_vars

----------------------------------------------------------------------------
(* Claims about get_attempts_map, checked under SpecMap.                   *)

Max(S) == CHOOSE x \in S : \A y \in S : y <= x

\* timestamps of the processed attempts with fingerprint fp that pass the gate
GatedTimestamps(atts, fps, fp) ==
    {atts[n].timestamp : n \in {x \in 1..Len(atts) :
        atts[x].fingerprint = fp /\ FingerprintFound(fps, atts[x])}}

\* the permutations of 1..n, for every length a processed sequence can have
IndexPermutations ==
    [n \in 0..MaxAttempts |->
        {f \in [1..n -> 1..n] : \A a, b \in 1..n : f[a] = f[b] => a = b}]

Reorderings(s) == {[n \in 1..Len(s) |-> s[p[n]]] : p \in IndexPermutations[Len(s)]}

\* C1: after any processed prefix, every index entry is stored under its own
\* fingerprint and carries the greatest timestamp of the processed attempts with
\* that fingerprint that pass the universe gate; every fingerprint with such an
\* attempt has exactly that one entry.
C1_LatestWins ==
    pc = "get_attempts_map" =>
        \A fp \in Fingerprints :
            LET ts == GatedTimestamps(attempts, actual_fingerprints, fp) IN
            IF ts = {} THEN fp \notin DOMAIN attempts_map
            ELSE /\ fp \in DOMAIN attempts_map
                 /\ attempts_map[fp].fingerprint = fp
                 /\ attempts_map[fp].timestamp = Max(ts)

\* three gated attempts of one fingerprint, processed in the order middle,
\* oldest, newest and in the order newest first; the index holds the newest
C1_Witness ==
    /\ pc = "get_attempts_map"
    /\ Len(attempts) = 3
    /\ \A n \in 1..3 : attempts[n].fingerprint = "fp1"
    /\ attempts[2].timestamp < attempts[1].timestamp
    /\ attempts[1].timestamp < attempts[3].timestamp
    /\ "fp1" \in DOMAIN attempts_map
    /\ attempts_map["fp1"] = attempts[3]

\* C2 as stated: every permutation of the processed attempts yields the same
\* index, all fields of the stored records included.
C2_OrderIndependentRecords ==
    pc = "get_attempts_map" =>
        \A p \in Reorderings(attempts) :
            get_attempts_map(p, actual_fingerprints) = attempts_map

\* no two gated attempts share fingerprint and timestamp and differ elsewhere
NoTimestampTies(atts, fps) ==
    \A a, b \in 1..Len(atts) :
        ( /\ FingerprintFound(fps, atts[a])
          /\ atts[a].fingerprint = atts[b].fingerprint
          /\ atts[a].timestamp = atts[b].timestamp ) => atts[a] = atts[b]

\* C2 amended: every permutation of the processed attempts yields an index with
\* the same fingerprints and, per fingerprint, the same timestamp; the stored
\* records are equal in all fields when no two gated attempts of one
\* fingerprint carry the same timestamp and differ in another field.
C2_OrderIndependent ==
    pc = "get_attempts_map" =>
        LET no_ties == NoTimestampTies(attempts, actual_fingerprints) IN
        \A p \in Reorderings(attempts) :
            LET m == get_attempts_map(p, actual_fingerprints) IN
            /\ DOMAIN m = DOMAIN attempts_map
            /\ \A fp \in DOMAIN m : m[fp].timestamp = attempts_map[fp].timestamp
            /\ no_ties => m = attempts_map

\* three attempts of one gated fingerprint with three different timestamps,
\* processed newest first, so that reordering changes which inserts replace
C2_Witness ==
    /\ pc = "get_attempts_map"
    /\ Len(attempts) = 3
    /\ \A n \in 1..3 : attempts[n].fingerprint = "fp2"
    /\ attempts[1].timestamp > attempts[2].timestamp
    /\ attempts[2].timestamp > attempts[3].timestamp
    /\ attempts[1].fingerprint_type # attempts[2].fingerprint_type
    /\ "fp2" \in DOMAIN attempts_map

\* C3: an attempt whose fingerprint equals no universe entry's fingerprint is
\* never in the index; every key of the index is the fingerprint of a universe
\* entry and of a processed attempt, and the stored record is that attempt.
C3_UniverseGating ==
    pc = "get_attempts_map" =>
        /\ \A n \in 1..Len(attempts) :
               ~FingerprintFound(actual_fingerprints, attempts[n])
                   => attempts[n].fingerprint \notin DOMAIN attempts_map
        /\ \A fp \in DOMAIN attempts_map :
               /\ \E u \in 1..Len(actual_fingerprints) :
                      actual_fingerprints[u].fingerprint = fp
               /\ \E n \in 1..Len(attempts) :
                      /\ attempts[n].fingerprint = fp
                      /\ attempts_map[fp] = attempts[n]

\* an attempt outside the universe with the greatest timestamp, processed
\* between two attempts of a fingerprint inside it
C3_Witness ==
    /\ pc = "get_attempts_map"
    /\ Len(attempts) = 3
    /\ ~FingerprintFound(actual_fingerprints, attempts[2])
    /\ FingerprintFound(actual_fingerprints, attempts[1])
    /\ FingerprintFound(actual_fingerprints, attempts[3])
    /\ attempts[2].timestamp > attempts[1].timestamp
    /\ attempts[2].timestamp > attempts[3].timestamp
    /\ DOMAIN attempts_map = {attempts[1].fingerprint}

\* C11 as stated: an attempt whose fingerprint_type differs from that of the
\* universe entry it is compared with is never the record the index stores, so
\* every stored record has the fingerprint_type of its universe entry.
C11_AlgorithmMismatchIsNoMatch ==
    pc = "get_attempts_map" =>
        \A fp \in DOMAIN attempts_map :
            \A u \in 1..Len(actual_fingerprints) :
                actual_fingerprints[u].fingerprint = fp
                    => attempts_map[fp].fingerprint_type
                           = actual_fingerprints[u].fingerprint_type

\* C11 amended: the fingerprint_type fields are not compared.  An attempt's
\* fingerprint is a key of the index exactly when its fingerprint string equals
\* that of a universe entry, whatever the two fingerprint_type values; when
\* the only processed attempts of a fingerprint carry another type than the
\* universe entry, one of them is the stored record.
C11_MatchIgnoresAlgorithm ==
    pc = "get_attempts_map" =>
        \A n \in 1..Len(attempts) :
            LET fp == attempts[n].fingerprint
                listed == \E u \in 1..Len(actual_fingerprints) :
                              actual_fingerprints[u].fingerprint = fp
            IN /\ fp \in DOMAIN attempts_map <=> listed
               /\ ( /\ listed
                    /\ \A k \in 1..Len(attempts) :
                           attempts[k].fingerprint = fp
                               => attempts[k].fingerprint_type = "MD5" )
                      => attempts_map[fp].fingerprint_type = "MD5"

\* the universe lists fp1 under SHA256; the only processed attempts of fp1 are
\* labelled MD5, and the later of them is the stored record
C11_Witness ==
    /\ pc = "get_attempts_map"
    /\ Len(attempts) = 2
    /\ \E u \in 1..Len(actual_fingerprints) :
           /\ actual_fingerprints[u].fingerprint = "fp1"
           /\ actual_fingerprints[u].fingerprint_type = "SHA256"
    /\ \A n \in 1..2 : /\ attempts[n].fingerprint = "fp1"
                       /\ attempts[n].fingerprint_type = "MD5"
    /\ attempts[1].timestamp < attempts[2].timestamp
    /\ "fp1" \in DOMAIN attempts_map
    /\ attempts_map["fp1"] = attempts[2]

----------------------------------------------------------------------------
(* Claims about get_key_candidates_for_removal.                            *)

IsCandidate(authorized_key) == Contains(candidates_for_removal, authorized_key)

\* elapsed whole days of the index entry a parsed key resolves to
EntryDays(authorized_key) ==
    SinceDays(now, attempts_map[FingerprintOf(authorized_key)].timestamp)

HasEntry(authorized_key) ==
    PublicKeyParseOk(authorized_key) /\ FingerprintOf(authorized_key) \in DOMAIN attempts_map

\* timestamp of the index entry a parsed key resolves to
EntryTimestamp(authorized_key) ==
    attempts_map[FingerprintOf(authorized_key)].timestamp

\* C4 (SpecThreshold): for a threshold within the signed range, a processed key
\* whose index entry is exactly days_threshold truncated whole days before now
\* is not a candidate, one whose entry is days_threshold + 1 whole days before
\* now is a candidate, and in general the key is a candidate exactly when the
\* truncated whole days are strictly greater than the threshold.
C4_ThresholdBoundary ==
    (pc = "get_key_candidates_for_removal" /\ ~days_threshold.wrapped) =>
        \A n \in 1..Len(authorized_keys) :
            LET k == authorized_keys[n] IN
            HasEntry(k) =>
                /\ EntryDays(k) = days_threshold.n => ~IsCandidate(k)
                /\ EntryDays(k) = days_threshold.n + 1 => IsCandidate(k)
                /\ IsCandidate(k) <=> EntryDays(k) > days_threshold.n

\* threshold 0, entry one and a half days old: truncated to 1 = threshold + 1
C4_Witness ==
    /\ pc = "get_key_candidates_for_removal"
    /\ days_threshold = [wrapped |-> FALSE, n |-> 0]
    /\ Len(authorized_keys) = 1
    /\ HasEntry(authorized_keys[1])
    /\ 2 * (now - attempts_map[FingerprintOf(authorized_keys[1])].timestamp) = 3 * SecsPerDay
    /\ candidates_for_removal = authorized_keys

\* C5 (SpecClassify): a processed key that parses and whose fingerprint has no
\* index entry is never in the candidate list, for every threshold (0 and
\* usize::MAX included) and whatever the other keys are.
C5_NoEvidenceExcluded ==
    pc = "get_key_candidates_for_removal" =>
        \A n \in 1..Len(authorized_keys) :
            LET k == authorized_keys[n] IN
            (PublicKeyParseOk(k) /\ FingerprintOf(k) \notin DOMAIN attempts_map)
                => ~IsCandidate(k)

\* threshold 0: a key without an index entry between two stale keys
C5_Witness ==
    /\ pc = "get_key_candidates_for_removal"
    /\ days_threshold = [wrapped |-> FALSE, n |-> 0]
    /\ Len(authorized_keys) = 3
    /\ PublicKeyParseOk(authorized_keys[2])
    /\ FingerprintOf(authorized_keys[2]) \notin DOMAIN attempts_map
    /\ candidates_for_removal = <<authorized_keys[1], authorized_keys[3]>>

\* C6 (SpecClassify): at every point of the pass the candidate list holds no two
\* entries equal in key type, key material and comment.
C6_NoDuplicateCandidates ==
    pc = "get_key_candidates_for_removal" =>
        \A a, b \in 1..Len(candidates_for_removal) :
            AuthorizedKeyEq(candidates_for_removal[a], candidates_for_removal[b]) => a = b

\* a stale entry, another stale entry, then the first one again on a later row
C6_Witness ==
    /\ pc = "get_key_candidates_for_removal"
    /\ Len(authorized_keys) = 3
    /\ AuthorizedKeyEq(authorized_keys[1], authorized_keys[3])
    /\ authorized_keys[1] # authorized_keys[3]
    /\ last_log = "duplicate"
    /\ candidates_for_removal = <<authorized_keys[1], authorized_keys[2]>>

IsPrefix(s, t) == Len(s) <= Len(t) /\ SubSeq(t, 1, Len(s)) = s

\* position of the first entry of the processed list structurally equal to k
FirstOccurrence(k) ==
    CHOOSE n \in 1..Len(authorized_keys) :
        /\ AuthorizedKeyEq(authorized_keys[n], k)
        /\ \A x \in 1..(n - 1) : ~AuthorizedKeyEq(authorized_keys[x], k)

OrderPreserved ==
    /\ \A a \in 1..Len(candidates_for_removal) :
           /\ \E n \in 1..Len(authorized_keys) :
                  authorized_keys[n] = candidates_for_removal[a]
           /\ authorized_keys[FirstOccurrence(candidates_for_removal[a])]
                  = candidates_for_removal[a]
    /\ \A a, b \in 1..Len(candidates_for_removal) :
           a < b => FirstOccurrence(candidates_for_removal[a])
                        < FirstOccurrence(candidates_for_removal[b])

\* C8 (SpecClassify): every candidate is an element of the input list (the
\* first occurrence of its entry), candidates stand in the order of those
\* first occurrences, and a step of the pass only ever appends to the list.
C8_OrderPreserved ==
    /\ [](pc = "get_key_candidates_for_removal" => OrderPreserved)
    /\ [][IsPrefix(candidates_for_removal, candidates_for_removal')]_vars

\* three different stale entries, all reported, in input order
C8_Witness ==
    /\ pc = "get_key_candidates_for_removal"
    /\ Len(authorized_keys) = 3
    /\ candidates_for_removal = authorized_keys
    /\ FingerprintOf(authorized_keys[1]) # FingerprintOf(authorized_keys[2])
    /\ authorized_keys[3].id # authorized_keys[1].id

\* C9 (SpecClassify): an entry that fails to parse is not a candidate and leaves
\* the candidate list as it was, and the list is at every point the one the
\* function returns for the processed entries with the failing ones removed.
C9_ParseFailureSkipped ==
    /\ [](pc = "get_key_candidates_for_removal" =>
            /\ \A n \in 1..Len(authorized_keys) :
                   ~PublicKeyParseOk(authorized_keys[n])
                       => \A a \in 1..Len(candidates_for_removal) :
                              candidates_for_removal[a] # authorized_keys[n]
            /\ candidates_for_removal =
                   get_key_candidates_for_removal(
                       SelectSeq(authorized_keys, PublicKeyParseOk),
                       attempts_map, days_threshold, now))
    /\ [][last_log' = "parse_error" =>
              candidates_for_removal' = candidates_for_removal]_vars

\* a stale entry, an entry that fails to parse, another stale entry
C9_Witness ==
    /\ pc = "get_key_candidates_for_removal"
    /\ Len(authorized_keys) = 3
    /\ ~PublicKeyParseOk(authorized_keys[2])
    /\ candidates_for_removal = <<authorized_keys[1], authorized_keys[3]>>
    /\ last_log = "added"

\* C14 (SpecClassify): no iteration takes the branch that logs "wasn't found
\* in auth logs" (the else of the `if let Some` at oldkeys.rs:93), and every
\* step that changes the candidate list appends the key just read, on the
\* branch where that key parses, its fingerprint has an index entry more than
\* the threshold whole days old, and no equal entry is in the list yet.
C14_MissingBranchUnreachable ==
    /\ [](last_log # "missing")
    /\ [][candidates_for_removal' # candidates_for_removal =>
              LET k == authorized_keys'[Len(authorized_keys')] IN
              /\ last_log' = "added"
              /\ candidates_for_removal' = Append(candidates_for_removal, k)
              /\ HasEntry(k)
              /\ NumDays(now - EntryTimestamp(k)) > U64AsI64(days_threshold)
              /\ \A a \in 1..Len(candidates_for_removal) :
                     ~AuthorizedKeyEq(candidates_for_removal[a], k)]_vars

\* two keys with index entries: the first was used too recently and is left
\* out, the second passes the elapsed-days and duplicate tests and is appended
C14_Witness ==
    /\ pc = "get_key_candidates_for_removal"
    /\ Len(authorized_keys) = 2
    /\ HasEntry(authorized_keys[1])
    /\ HasEntry(authorized_keys[2])
    /\ candidates_for_removal = <<authorized_keys[2]>>
    /\ last_log = "added"

\* the calendar day an instant falls on (the epoch is a midnight)
CalendarDay(t) == t \div SecsPerDay

\* C12 as stated (SpecThreshold): with threshold 0, a processed key whose index
\* entry falls on a calendar day before the day of now is a candidate, and one
\* whose entry falls on the day of now is not.
C12_ZeroMeansNotToday ==
    (pc = "get_key_candidates_for_removal"
         /\ days_threshold = [wrapped |-> FALSE, n |-> 0]) =>
        \A n \in 1..Len(authorized_keys) :
            LET k == authorized_keys[n] IN
            HasEntry(k) =>
                /\ CalendarDay(EntryTimestamp(k)) < CalendarDay(now) => IsCandidate(k)
                /\ CalendarDay(EntryTimestamp(k)) = CalendarDay(now) => ~IsCandidate(k)

\* C12 amended (SpecThreshold): with threshold 0, a processed key with an index
\* entry is a candidate exactly when the entry is at least 86400 seconds before
\* now; an entry on the day of now, or on the day before but less than 86400
\* seconds back, leaves the key out.
C12_ZeroMeansFullDay ==
    (pc = "get_key_candidates_for_removal"
         /\ days_threshold = [wrapped |-> FALSE, n |-> 0]) =>
        \A n \in 1..Len(authorized_keys) :
            LET k == authorized_keys[n] IN
            HasEntry(k) =>
                /\ IsCandidate(k) <=> now - EntryTimestamp(k) >= SecsPerDay
                /\ CalendarDay(EntryTimestamp(k)) = CalendarDay(now) => ~IsCandidate(k)

\* threshold 0, now at midnight, the entry at noon of the day before: twelve
\* hours back on another calendar day, and the key is not a candidate
C12_Witness ==
    /\ pc = "get_key_candidates_for_removal"
    /\ days_threshold = [wrapped |-> FALSE, n |-> 0]
    /\ Len(authorized_keys) = 1
    /\ HasEntry(authorized_keys[1])
    /\ 2 * (now - EntryTimestamp(authorized_keys[1])) = SecsPerDay
    /\ CalendarDay(EntryTimestamp(authorized_keys[1])) < CalendarDay(now)
    /\ last_log = "recent"
    /\ candidates_for_removal = <<>>

\* C15 (SpecThreshold): for a processed key whose index entry has a timestamp
\* later than now, the elapsed whole days are zero or negative, and for every
\* threshold within the signed range (0 included) the key is not a candidate.
C15_FutureUseNeverStale ==
    pc = "get_key_candidates_for_removal" =>
        \A n \in 1..Len(authorized_keys) :
            LET k == authorized_keys[n] IN
            (HasEntry(k) /\ EntryTimestamp(k) > now) =>
                /\ EntryDays(k) <= 0
                /\ ~days_threshold.wrapped => ~IsCandidate(k)

\* threshold 0, the entry dated a day and a half after now: minus one whole
\* day, and the key is left out
C15_Witness ==
    /\ pc = "get_key_candidates_for_removal"
    /\ days_threshold = [wrapped |-> FALSE, n |-> 0]
    /\ Len(authorized_keys) = 1
    /\ HasEntry(authorized_keys[1])
    /\ 2 * (EntryTimestamp(authorized_keys[1]) - now) = 3 * SecsPerDay
    /\ EntryDays(authorized_keys[1]) = -1
    /\ last_log = "recent"
    /\ candidates_for_removal = <<>>

\* two entries that parse, with the same key type and key material and
\* different comments
SameKeyOtherComment(a, b) ==
    /\ PublicKeyParseOk(a) /\ PublicKeyParseOk(b)
    /\ a.key_type = b.key_type /\ a.key = b.key
    /\ a.id # b.id

\* C16 (SpecClassify): two processed entries that parse, with the same key type
\* and key material and different comments, have the same fingerprint and so
\* the same index entry (or none); either both are candidates or neither is;
\* and when the index entry is more than the threshold whole days old the
\* candidate list holds both, at two different positions.
C16_VerdictByFingerprint ==
    pc = "get_key_candidates_for_removal" =>
        \A x, y \in 1..Len(authorized_keys) :
            LET a == authorized_keys[x]
                b == authorized_keys[y]
            IN SameKeyOtherComment(a, b) =>
                /\ FingerprintOf(a) = FingerprintOf(b)
                /\ MapGet(attempts_map, FingerprintOf(a))
                       = MapGet(attempts_map, FingerprintOf(b))
                /\ IsCandidate(a) <=> IsCandidate(b)
                /\ ( /\ HasEntry(a)
                     /\ NumDays(now - EntryTimestamp(a)) > U64AsI64(days_threshold) )
                       => \E i, j \in 1..Len(candidates_for_removal) :
                              /\ i # j
                              /\ AuthorizedKeyEq(candidates_for_removal[i], a)
                              /\ AuthorizedKeyEq(candidates_for_removal[j], b)

\* the same stale key twice, once without a comment and once with one: both
\* rows are in the candidate list
C16_Witness ==
    /\ pc = "get_key_candidates_for_removal"
    /\ Len(authorized_keys) = 2
    /\ SameKeyOtherComment(authorized_keys[1], authorized_keys[2])
    /\ authorized_keys[1].id = ""
    /\ candidates_for_removal = authorized_keys

----------------------------------------------------------------------------
(* Claims about the whole run, checked under Spec.                         *)

\* more than the threshold: elapsed days are far below 2^63, so no elapsed
\* time exceeds a threshold held as 2^64 - v
MoreDaysThan(days, threshold) == ~threshold.wrapped /\ days > threshold.n

Reported(authorized_key) ==
    result.kind = "ok" /\ Contains(result.keys, authorized_key)

LatestGatedUseIsOld(authorized_key) ==
    LET ts == GatedTimestamps(attempts, actual_fingerprints, FingerprintOf(authorized_key)) IN
    /\ ts # {}
    /\ MoreDaysThan(SinceDays(now, Max(ts)), days_threshold)

\* C7: in a run that returns a list, every authorized key that parses is
\* reported if and only if its fingerprint has a gated login attempt and the
\* greatest timestamp among them is more than days_threshold whole days
\* before now.
C7_ReportedIffLatestUseOld ==
    (pc \in {"returned", "exited"} /\ result.kind = "ok") =>
        \A n \in 1..Len(authorized_keys) :
            PublicKeyParseOk(authorized_keys[n]) =>
                (Reported(authorized_keys[n]) <=> LatestGatedUseIsOld(authorized_keys[n]))

\* C7 for thresholds below 2^63, where the cast of oldkeys.rs:80 is the identity
C7_WithinSignedRange ==
    (pc \in {"returned", "exited"} /\ result.kind = "ok" /\ ~days_threshold.wrapped) =>
        \A n \in 1..Len(authorized_keys) :
            PublicKeyParseOk(authorized_keys[n]) =>
                (Reported(authorized_keys[n]) <=> LatestGatedUseIsOld(authorized_keys[n]))

LaterStepsNotRun ==
    /\ failed = "login_attempts" => attempts = <<>>
    /\ failed \in {"login_attempts", "fingerprints"} =>
           actual_fingerprints = <<>> /\ attempts_map = EmptyMap
    /\ authorized_keys = <<>> /\ candidates_for_removal = <<>>

\* C10: a run never stops before main exits, and returns exactly one of a
\* candidate list and an error; when a source fails to load the run returns at
\* once with the error of that source, no later step has run, and main prints
\* nothing and exits with EXIT_CODE_ERROR; otherwise main prints the header
\* and the candidates and exits with 0.
C10_SourceFailureIsFatal ==
    /\ pc \notin {"returned", "exited"} => ENABLED Next
    /\ pc = "returned" => ENABLED (MainOk \/ MainErr)
    /\ pc \in {"returned", "exited"} <=> result.kind \in {"ok", "err"}
    /\ failed # "none" =>
           /\ pc \in {"returned", "exited"}
           /\ result = Err(failed)
           /\ LaterStepsNotRun
           /\ stdout = <<>>
           /\ pc = "exited" => exit_code = EXIT_CODE_ERROR
    /\ (failed = "none" /\ pc \in {"returned", "exited"}) =>
           /\ result = Ok(candidates_for_removal)
           /\ pc = "exited" =>
                  /\ exit_code = 0
                  /\ Len(stdout) = 1 + Len(candidates_for_removal)
    /\ pc \notin {"returned", "exited"} => stdout = <<>> /\ exit_code = -1

\* the fingerprints fail to load after the attempts were read: main has exited
\* with EXIT_CODE_ERROR and printed nothing
C10_Witness ==
    /\ pc = "exited"
    /\ failed = "fingerprints"
    /\ Len(attempts) = 2
    /\ result = Err("fingerprints")
    /\ exit_code = EXIT_CODE_ERROR
    /\ stdout = <<>>

----------------------------------------------------------------------------
(* get_authorized_keys_from_file, src/src/authorizedkeys.rs:48-108.        *)
(* A row is a sequence of pieces: a word (a run of non-blank characters)   *)
(* or one blank character, a space or a tab.  No two words are adjacent.   *)

\* most words on a row
MaxWords == 4

Blanks == {" ", "\t"}
Words == {"ssh-rsa", "SSH-ED25519", "ssh-dss", "AAAAB3NzaC1yc2E", "john"}

\* the blanks before the first word, between two words and after the last
Layouts ==
    { [lead |-> <<>>, sep |-> <<" ">>, trail |-> <<>>],
      [lead |-> <<"\t">>, sep |-> <<"\t">>, trail |-> <<" ">>],
      [lead |-> <<" ", " ">>, sep |-> <<" ", "\t", " ">>, trail |-> <<"\t", " ">>] }

RECURSIVE JoinWords(_, _)
JoinWords(ws, sep) ==
    IF Len(ws) <= 1 THEN ws
    ELSE <<Head(ws)>> \o sep \o JoinWords(Tail(ws), sep)

RowValues ==
    {lay.lead \o JoinWords(ws, lay.sep) \o lay.trail :
        ws \in SeqsUpTo(Words, MaxWords), lay \in Layouts}

\* file_content.split(LINE_ENDING) (authorizedkeys.rs:57): a file of one line,
\* and the same file ending with a line break, which yields a last empty row
FileRows == {<<row>> : row \in RowValues} \cup {<<row, <<>>>> : row \in RowValues}

RECURSIVE TrimStart(_)
TrimStart(row) ==
    IF row # <<>> /\ Head(row) \in Blanks THEN TrimStart(Tail(row)) ELSE row

RECURSIVE TrimEnd(_)
TrimEnd(row) ==
    IF row # <<>> /\ row[Len(row)] \in Blanks
    THEN TrimEnd(SubSeq(row, 1, Len(row) - 1)) ELSE row

\* str::trim
Trim(row) == TrimEnd(TrimStart(row))

\* space_pattern.replace_all(&row, " ") with the pattern \s{2,}
\* (authorizedkeys.rs:55 and 62): every run of two or more blanks becomes one
\* space, a single blank stays as it is
RECURSIVE ReplaceSpaceRuns(_)
ReplaceSpaceRuns(row) ==
    IF row = <<>> THEN <<>>
    ELSE IF Len(row) >= 2 /\ row[1] \in Blanks /\ row[2] \in Blanks
         THEN <<" ">> \o ReplaceSpaceRuns(TrimStart(row))
         ELSE <<Head(row)>> \o ReplaceSpaceRuns(Tail(row))

\* .replace("\t", " ") (authorizedkeys.rs:64)
ReplaceTabs(row) == [n \in 1..Len(row) |-> IF row[n] = "\t" THEN " " ELSE row[n]]

\* normalized_row (authorizedkeys.rs:62-64).  The second replace of the chain
\* looks for the literal text \s{2,}, which no row of the model holds.
NormalizeRow(row) == ReplaceTabs(Trim(ReplaceSpaceRuns(row)))

\* normalized_row.split(" ") (authorizedkeys.rs:67): the parts between the
\* spaces, an empty part where two spaces meet and for an empty row
RECURSIVE Split(_)
Split(row) ==
    IF row = <<>> THEN <<"">>
    ELSE LET rest == Split(Tail(row)) IN
         IF Head(row) = " " THEN <<"">> \o rest
         ELSE <<Head(row)>> \o Tail(rest)

\* str::to_lowercase on the words of the model
ToLowercase(value) ==
    CASE value = "SSH-ED25519" -> "ssh-ed25519"
      [] value = "AAAAB3NzaC1yc2E" -> "aaaab3nzac1yc2e"
      [] OTHER -> value

\* starts_with("ssh-") on the lowercased words of the model
StartsWithSsh(value) == value \in {"ssh-rsa", "ssh-ed25519", "ssh-dss"}

\* KeyType::try_from (authorizedkeys.rs:29-46)
KeyTypeTryFrom(value) ==
    IF StartsWithSsh(ToLowercase(value))
    THEN [ok |-> TRUE,
          key_type |-> CASE ToLowercase(value) = "ssh-rsa" -> "RSA"
                         [] ToLowercase(value) = "ssh-ed25519" -> "ED25519"
                         [] OTHER -> "OTHER"]
    ELSE [ok |-> FALSE, error |-> "unsupported row header"]

\* AuthorizedKey of authorizedkeys.rs:15-20
FileAuthorizedKey(key_type, key, id) == [key_type |-> key_type, key |-> key, id |-> id]

\* key_id (authorizedkeys.rs:78-83): the third part when there are exactly three
KeyId(row_parts) == IF Len(row_parts) = 3 THEN row_parts[3] ELSE ""

\* the branch the loop body takes for one row (authorizedkeys.rs:61-99)
ParseRowBranch(row) ==
    LET row_parts == Split(NormalizeRow(row)) IN
    IF Len(row_parts) >= 2
    THEN IF KeyTypeTryFrom(row_parts[1]).ok THEN "pushed" ELSE "unsupported_row_header"
    ELSE "unsupported_row_format"

\* `keys` after the loop body has run for one row (authorizedkeys.rs:61-99)
ParseRowStep(ks, row) ==
    LET row_parts == Split(NormalizeRow(row)) IN
    IF ParseRowBranch(row) = "pushed"
    THEN Append(ks, FileAuthorizedKey(KeyTypeTryFrom(row_parts[1]).key_type,
                                      row_parts[2], KeyId(row_parts)))
    ELSE ks

----------------------------------------------------------------------------
(* SpecParse: one call of get_authorized_keys_from_file, one action per    *)
(* iteration of its loop.                                                  *)

InitParse ==
    /\ pc = "get_authorized_keys_from_file"
    /\ ParserIdle
    /\ days_threshold = [wrapped |-> FALSE, n |-> 0]
    /\ failed = "none"
    /\ attempts = <<>>
    /\ actual_fingerprints = <<>>
    /\ attempts_map = EmptyMap
    /\ authorized_keys = <<>>
    /\ now = 0
    /\ candidates_for_removal = <<>>
    /\ last_log = "none"
    /\ result = [kind |-> "none"]
    /\ stdout = <<>>
    /\ exit_code = -1

\* authorizedkeys.rs:51-59: the file exists, its content is read as text and
\* split
ReadFile(file_rows) ==
    /\ pc = "get_authorized_keys_from_file"
    /\ rows' = file_rows
    /\ pc' = "parser_loop"
    /\ UNCHANGED <<row_index, parser_keys, last_log, result>>
    /\ UNCHANGED <<days_threshold, failed, attempts, actual_fingerprints,
                   attempts_map, authorized_keys, now, candidates_for_removal,
                   stdout, exit_code>>

\* authorizedkeys.rs:52-53: the file exists and read_to_string fails (the
\* content is not UTF-8, or the read is refused): `?` returns the error with
\* its context
ReadFileFails ==
    /\ pc = "get_authorized_keys_from_file"
    /\ result' = Err("cannot read file content")
    /\ pc' = "parser_returned"
    /\ UNCHANGED <<rows, row_index, parser_keys, last_log>>
    /\ UNCHANGED <<days_threshold, failed, attempts, actual_fingerprints,
                   attempts_map, authorized_keys, now, candidates_for_removal,
                   stdout, exit_code>>

\* authorizedkeys.rs:51 and 105-107: the path is not an existing file
FileMissing ==
    /\ pc = "get_authorized_keys_from_file"
    /\ result' = Err("File doesn't exist")
    /\ pc' = "parser_returned"
    /\ UNCHANGED <<rows, row_index, parser_keys, last_log>>
    /\ UNCHANGED <<days_threshold, failed, attempts, actual_fingerprints,
                   attempts_map, authorized_keys, now, candidates_for_removal,
                   stdout, exit_code>>

\* authorizedkeys.rs:61-99: the loop body for the next row
ParseRow ==
    /\ pc = "parser_loop"
    /\ row_index < Len(rows)
    /\ parser_keys' = ParseRowStep(parser_keys, rows[row_index + 1])
    /\ last_log' = ParseRowBranch(rows[row_index + 1])
    /\ row_index' = row_index + 1
    /\ UNCHANGED <<pc, rows, result>>
    /\ UNCHANGED <<days_threshold, failed, attempts, actual_fingerprints,
                   attempts_map, authorized_keys, now, candidates_for_removal,
                   stdout, exit_code>>

\* authorizedkeys.rs:101-103: the rows are exhausted, Ok(keys)
ParserReturn ==
    /\ pc = "parser_loop"
    /\ row_index = Len(rows)
    /\ result' = Ok(parser_keys)
    /\ pc' = "parser_returned"
    /\ UNCHANGED <<rows, row_index, parser_keys, last_log>>
    /\ UNCHANGED <<days_threshold, failed, attempts, actual_fingerprints,
                   attempts_map, authorized_keys, now, candidates_for_removal,
                   stdout, exit_code>>

NextParse ==
    \/ \E file_rows \in FileRows : ReadFile(file_rows)
    \/ ReadFileFails
    \/ FileMissing
    \/ ParseRow
    \/ ParserReturn

SpecParse == InitParse /\ [][NextParse]_vars

----------------------------------------------------------------------------
(* Claims about get_authorized_keys_from_file, checked under SpecParse.    *)

IsWord(piece) == piece \notin Blanks

\* the blank-separated fields of a line as written: key type, key material,
\* then the words of the comment
LineFields(row) == SelectSeq(row, IsWord)

\* C13: for every accepted line, the id of its entry is the line's comment
\* field: it is the empty string exactly when the line has no field after the
\* key material, and it is the comment itself when the comment is one word.
C13_IdIsCommentField ==
    (pc \in {"parser_loop", "parser_returned"} /\ row_index >= 1
         /\ ParseRowBranch(rows[1]) = "pushed") =>
        LET fields == LineFields(rows[1]) IN
        /\ Len(parser_keys) = 1
        /\ parser_keys[1].id = "" <=> Len(fields) = 2
        /\ Len(fields) = 3 => parser_keys[1].id = fields[3]

\* a line with a two-word comment has been accepted
C13_TwoWordComment ==
    /\ pc = "parser_returned"
    /\ result.kind = "ok"
    /\ Len(LineFields(rows[1])) = 4
    /\ Len(parser_keys) = 1

====
